---- MODULE Spec2Model ----
(***************************************************************************)
(* Model of packages/create-umi/src/index.ts: the scaffolding pipeline of  *)
(* create-umi (probes, parameter resolution, render/unpack, and the        *)
(* post-generation reconciliation steps removeHusky, moveNpmrc, initGit    *)
(* and dependency installation).                                           *)
(*                                                                         *)
(* Directories are the levels of the chain from the filesystem root        *)
(* (level 0) down to the target directory (level `target`); dirname of     *)
(* level l is level l-1, and dirname of the filesystem root is itself.     *)
(* Values that never influence control flow (author, email, version,       *)
(* appTemplate, pluginName) are not carried in the state; cancelling the   *)
(* plugin-name prompt leaves through the same exitPrompt as the others.    *)
(***************************************************************************)
EXTENDS Integers, Sequences, FiniteSets, TLC

\* ---------------------------------------------------------------- bounds
\* deepest target directory explored by the workspace-root probe
MaxDepth == 3
\* deepest target directory explored by whole runs of the pipeline
MaxRunDepth == 1
\* number of consecutive calls of reconciliation functions on one tree
MaxCalls == 2

\* ------------------------------------------------------------- constants
\* `null` returned by detectMonorepoRoot
NoDir == -1
\* `undefined` value of pnpmMajorVersion
Undefined == -1
\* major version that needs strict-peer-dependencies=false
PnpmStrictPeerMajor == 7
\* major version that installs minimal versions of the dependencies
PnpmMinimalInstallMajor == 8

ENpmClient == {"npm", "cnpm", "tnpm", "yarn", "pnpm"}

ERegistry == {"npm", "taobao"}

MarkerFiles == {"lerna.json", "pnpm-workspace.yaml"}

StrictPeerLine == "strict-peer-dependencies=false"

DEFAULT_DATA ==
  [npmClient |-> "pnpm", registry |-> "npm", withHusky |-> FALSE, extraNpmrc |-> ""]

\* caller-supplied default bundles (IGeneratorOpts.defaultData)
DefaultBundles ==
  { DEFAULT_DATA,
    [npmClient |-> "yarn", registry |-> "taobao", withHusky |-> TRUE, extraNpmrc |-> ""],
    [npmClient |-> "pnpm", registry |-> "npm", withHusky |-> TRUE,
     extraNpmrc |-> StrictPeerLine] }

\* stdout of `pnpm --version`, as its dot-separated components
PnpmVersionOutputs == { <<6, 35, 1>>, <<7, 12, 0>>, <<8, 6, 2>>, <<9, 0, 0>> }

\* outcomes of execa('pnpm', ['--version']): resolved with a stdout, or rejected
PnpmProbeOutcomes ==
  { [ok |-> TRUE, stdout |-> v] : v \in PnpmVersionOutputs }
    \cup { [ok |-> FALSE, stdout |-> << >>] }

\* contents of a .npmrc file; Absent: no such file
Absent == "absent"
NpmrcContents == {"user", "template"}

\* hosts that `npm config get registry` may print
ChinaRegistryHosts ==
  {"registry.npm.taobao.org", "registry.npmmirror.com", "r.cnpmjs.org", "registry.nlark.com"}
NpmRegistryHosts ==
  {"registry.npmjs.org", "registry.npmjs.com", "registry.yarnpkg.com"}
RegistryOutputs ==
  {"registry.npmjs.org", "registry.npmmirror.com", "npm.corp.example"}

VARIABLES
  pc,               \* position in the default export, or "harness"/"probe"
  args,             \* [default, template, git, install]: the IArgs flags
  defaultData,      \* the defaultData parameter
  target,           \* level of the target directory
  manifest,         \* levels whose directory holds package.json
  markers,          \* level -> marker files present in that directory
  husky,            \* existsSync(join(target, '.husky'))
  npmrc,            \* level -> content of that directory's .npmrc
  gitDirs,          \* levels whose directory holds .git
  customRegistry,   \* <<>> (undefined) or <<host>>
  npmClient,
  registry,
  monorepoRoot,
  inMonorepo,
  projectRoot,
  shouldInitGit,
  withHusky,
  pnpmExtraNpmrc,
  pnpmMajorVersion,
  data,             \* <<>> or <<d>>: the data handed to BaseGenerator
  log,              \* lines written through logger
  trace,            \* calls made so far, in order
  thrown,           \* "none" or the error that rejected the run
  gitSpawns,        \* number of `git init` spawned
  hist              \* harness: one record per call made

vars ==
  << pc, args, defaultData, target, manifest, markers, husky, npmrc, gitDirs,
     customRegistry, npmClient, registry, monorepoRoot, inMonorepo, projectRoot,
     shouldInitGit, withHusky, pnpmExtraNpmrc, pnpmMajorVersion, data, log,
     trace, thrown, gitSpawns, hist >>

\* ------------------------------------------------------------ path model
Levels == 0 .. MaxDepth

\* path.dirname
Dirname(l) == IF l = 0 THEN 0 ELSE l - 1

\* pkgUp.pkgUp({ cwd }): directory of the nearest package.json at or above cwd
RECURSIVE PkgUp(_, _)
PkgUp(mf, cwd) ==
  IF cwd \in mf THEN cwd
  ELSE IF cwd = 0 THEN NoDir
  ELSE PkgUp(mf, cwd - 1)

\* tryPaths over the two marker files of rootDir: is one of them there?
TryPaths(mk, rootDir) ==
  \E f \in MarkerFiles : f \in mk[rootDir]

\* detectMonorepoRoot with a lookup that goes on to higher manifests
RECURSIVE DetectMonorepoRoot_Climbs(_, _, _)
DetectMonorepoRoot_Climbs(mf, mk, tgt) ==
  LET rootDir == PkgUp(mf, Dirname(tgt))
  IN  IF rootDir = NoDir THEN NoDir
      ELSE IF TryPaths(mk, rootDir) THEN rootDir
      ELSE IF rootDir = 0 THEN NoDir
      ELSE DetectMonorepoRoot_Climbs(mf, mk, rootDir)

DetectMonorepoRoot(mf, mk, tgt) ==
  LET rootDir == PkgUp(mf, Dirname(tgt))
  IN  IF rootDir = NoDir THEN NoDir
      ELSE IF TryPaths(mk, rootDir) THEN rootDir
      ELSE NoDir

\* ------------------------------------------------------ reconciliation
LogGitFailed == "Initial the git repo failed"
LogSkipGit == "Skip Git init"
LogSkipInstall == "Skip install deps"
LogPnpm8Minimal == "You current using pnpm v8, it will install minimal version of dependencies"
LogPnpm8Recommend == "Recommended that you run pnpm up -L to install latest version of dependencies"

\* removeHusky without the existsSync check
removeHusky_NoCheck(h, fault) ==
  IF fault THEN [husky |-> h, threw |-> TRUE]
  ELSE [husky |-> FALSE, threw |-> FALSE]

\* removeHusky: `fault` is fsExtra.remove rejecting
removeHusky(h, fault) ==
  IF h
    THEN IF fault THEN [husky |-> h, threw |-> TRUE]
                  ELSE [husky |-> FALSE, threw |-> FALSE]
    ELSE [husky |-> h, threw |-> FALSE]

\* moveNpmrc that keeps the local copy
moveNpmrc_KeepsLocal(f, tgt, root, copyFault, removeFault) ==
  LET copies == f[root] = Absent
  IN  IF copies /\ (copyFault \/ f[tgt] = Absent) THEN [npmrc |-> f, threw |-> TRUE]
      ELSE [npmrc |-> IF copies THEN [f EXCEPT ![root] = f[tgt]] ELSE f, threw |-> FALSE]

\* moveNpmrc: copyFile rejects when `copyFault` or when the source is missing
\* (ENOENT); `removeFault` is fsExtra.remove rejecting
moveNpmrc(f, tgt, root, copyFault, removeFault) ==
  LET copies == f[root] = Absent
      copied == IF copies THEN [f EXCEPT ![root] = f[tgt]] ELSE f
  IN  IF copies /\ (copyFault \/ f[tgt] = Absent) THEN [npmrc |-> f, threw |-> TRUE]
      ELSE IF removeFault THEN [npmrc |-> copied, threw |-> TRUE]
      ELSE [npmrc |-> [copied EXCEPT ![tgt] = Absent], threw |-> FALSE]

\* initGit without the existence check
initGit_NoCheck(g, root, fails) ==
  IF fails THEN [gitDirs |-> g, spawned |-> TRUE, failed |-> TRUE, threw |-> FALSE]
  ELSE [gitDirs |-> g \cup {root}, spawned |-> TRUE, failed |-> FALSE, threw |-> FALSE]

\* initGit without the try/catch
initGit_NoCatch(g, root, fails) ==
  IF root \in g THEN [gitDirs |-> g, spawned |-> FALSE, failed |-> FALSE, threw |-> FALSE]
  ELSE IF fails THEN [gitDirs |-> g, spawned |-> TRUE, failed |-> TRUE, threw |-> TRUE]
  ELSE [gitDirs |-> g \cup {root}, spawned |-> TRUE, failed |-> FALSE, threw |-> FALSE]

\* initGit: `fails` is `git init` rejecting; the catch turns it into a log line
initGit(g, root, fails) ==
  IF root \in g THEN [gitDirs |-> g, spawned |-> FALSE, failed |-> FALSE, threw |-> FALSE]
  ELSE IF fails THEN [gitDirs |-> g, spawned |-> TRUE, failed |-> TRUE, threw |-> FALSE]
  ELSE [gitDirs |-> g \cup {root}, spawned |-> TRUE, failed |-> FALSE, threw |-> FALSE]

\* ------------------------------------------------------------- probes
\* detectUserRegistry: `out` is the trimmed stdout, or "fail" when execa rejects
isChinaRegistry(r) == r \in ChinaRegistryHosts
isNpmRegistry(r) == r \in NpmRegistryHosts
\* detectUserRegistry without the try/catch
detectUserRegistry_NoCatch(out) ==
  IF out = "fail" THEN [threw |-> TRUE, registry |-> << >>]
  ELSE IF ~isChinaRegistry(out) /\ ~isNpmRegistry(out)
    THEN [threw |-> FALSE, registry |-> << out >>]
  ELSE [threw |-> FALSE, registry |-> << >>]

detectUserRegistry(out) ==
  IF out = "fail" THEN [threw |-> FALSE, registry |-> << >>]
  ELSE IF ~isChinaRegistry(out) /\ ~isNpmRegistry(out)
    THEN [threw |-> FALSE, registry |-> << out >>]
  ELSE [threw |-> FALSE, registry |-> << >>]

\* parseInt(stdout.trim().split('.')[0], 10)
ParseMajor(out) == out[1]

\* getPnpmMajorVersion whose catch answers undefined
getPnpmMajorVersion_Swallows(o) ==
  IF o.ok THEN [threw |-> FALSE, major |-> ParseMajor(o.stdout)]
  ELSE [threw |-> FALSE, major |-> Undefined]

\* getPnpmMajorVersion: a rejected command is rethrown as 'Please install pnpm first'
getPnpmMajorVersion(o) ==
  IF o.ok THEN [threw |-> FALSE, major |-> ParseMajor(o.stdout)]
  ELSE [threw |-> TRUE, major |-> Undefined]

\* lines 249-253
PnpmExtraNpmrcFor(major) ==
  IF major = PnpmStrictPeerMajor THEN StrictPeerLine ELSE ""

\* ------------------------------------------------- the default export
\* Whole runs start from every target depth up to MaxRunDepth, with any set
\* of manifests above the target and at most one marker file per directory
\* that has a manifest (directories holding both marker files, or a marker
\* file and no manifest, are covered by SpecProbe), a root .npmrc and a .git
\* directory that may pre-exist, and a fresh target.
NoError == "none"

\* directories above the target that the probe may visit
Ancestors(t) == 0 .. Dirname(t)

\* the files a directory chain with target `t` may hold before the run
TreeOK(t, mf, mk) ==
  /\ mf \subseteq Ancestors(t)
  /\ \A l \in Levels : l \notin Ancestors(t) => mk[l] = {}

\* the part shared by the initial states of every specification
InitRun ==
  /\ customRegistry = << >>
  /\ npmClient = "pnpm"
  /\ registry = "npm"
  /\ monorepoRoot = NoDir
  /\ inMonorepo = FALSE
  /\ projectRoot = target
  /\ shouldInitGit = FALSE
  /\ withHusky = FALSE
  /\ pnpmExtraNpmrc = ""
  /\ pnpmMajorVersion = Undefined
  /\ data = << >>
  /\ log = << >>
  /\ trace = << >>
  /\ thrown = NoError
  /\ gitSpawns = 0
  /\ hist = << >>

Init ==
  /\ pc = "detectUserRegistry"
  /\ args \in [default : BOOLEAN, template : BOOLEAN, git : BOOLEAN, install : BOOLEAN]
  /\ defaultData \in (IF args.default THEN DefaultBundles ELSE {DEFAULT_DATA})
  /\ target \in 0 .. MaxRunDepth
  /\ manifest \in SUBSET Ancestors(target)
  /\ markers \in [Levels -> {{}} \cup {{f} : f \in MarkerFiles}]
  /\ TreeOK(target, manifest, markers)
  /\ \A l \in Levels : l \notin manifest => markers[l] = {}
  /\ husky = FALSE
  /\ LET root == DetectMonorepoRoot(manifest, markers, target)
         top == IF root = NoDir THEN target ELSE root
     IN  /\ npmrc \in [Levels -> {Absent, "user"}]
         /\ \A l \in Levels : l # root => npmrc[l] = Absent
         /\ gitDirs \in SUBSET {top}
  /\ InitRun

\* an error rejects the promise of the default export
Reject(err) ==
  /\ thrown' = err
  /\ pc' = "rejected"

\* line 102, and the branch taken by the switch of lines 207-229
DetectUserRegistry ==
  /\ pc = "detectUserRegistry"
  /\ \E out \in RegistryOutputs \cup {"fail"} :
       LET r == detectUserRegistry(out)
       IN  /\ customRegistry' = r.registry
           /\ trace' = trace \o << "detectUserRegistry" >>
                          \o (IF out = "fail" THEN << "npm config get registry failed" >>
                                              ELSE << >>)
           /\ IF r.threw
                THEN Reject("detectUserRegistry")
                ELSE /\ pc' = IF args.template THEN "selectNpmClient"
                              ELSE IF ~args.default THEN "selectAppTemplate"
                              ELSE "detectMonorepo"
                     /\ UNCHANGED thrown
  /\ UNCHANGED << args, defaultData, target, manifest, markers, husky, npmrc, gitDirs,
                  npmClient, registry, monorepoRoot, inMonorepo, projectRoot,
                  shouldInitGit, withHusky, pnpmExtraNpmrc, pnpmMajorVersion, data, log,
                  gitSpawns, hist >>

\* lines 167-170: cancelling leaves through process.exit(1)
SelectAppTemplate ==
  /\ pc = "selectAppTemplate"
  /\ \E cancel \in BOOLEAN :
       pc' = IF cancel THEN "exited" ELSE "selectNpmClient"
  /\ UNCHANGED << args, defaultData, target, manifest, markers, husky, npmrc, gitDirs,
                  customRegistry, npmClient, registry, monorepoRoot, inMonorepo,
                  projectRoot, shouldInitGit, withHusky, pnpmExtraNpmrc,
                  pnpmMajorVersion, data, log, trace, thrown, gitSpawns, hist >>

\* lines 129-141 with 172-175 or 209-212
SelectNpmClient ==
  /\ pc = "selectNpmClient"
  /\ \/ /\ pc' = "exited"
        /\ UNCHANGED npmClient
     \/ /\ \E c \in ENpmClient : npmClient' = c
        /\ pc' = "selectRegistry"
  /\ UNCHANGED << args, defaultData, target, manifest, markers, husky, npmrc, gitDirs,
                  customRegistry, registry, monorepoRoot, inMonorepo, projectRoot,
                  shouldInitGit, withHusky, pnpmExtraNpmrc, pnpmMajorVersion, data, log,
                  trace, thrown, gitSpawns, hist >>

\* lines 142-163 with 177-180 or 213-216
SelectRegistry ==
  /\ pc = "selectRegistry"
  /\ \/ /\ pc' = "exited"
        /\ UNCHANGED registry
     \/ /\ \E r \in ERegistry \cup {customRegistry[i] : i \in DOMAIN customRegistry} :
             registry' = r
        /\ pc' = IF args.template THEN "unpackTemplate" ELSE "detectMonorepo"
  /\ UNCHANGED << args, defaultData, target, manifest, markers, husky, npmrc, gitDirs,
                  customRegistry, npmClient, monorepoRoot, inMonorepo, projectRoot,
                  shouldInitGit, withHusky, pnpmExtraNpmrc, pnpmMajorVersion, data, log,
                  trace, thrown, gitSpawns, hist >>

\* the files a template brings into the target directory
WriteTemplate(tplHusky, tplNpmrc) ==
  /\ husky' = (husky \/ tplHusky)
  /\ npmrc' = IF tplNpmrc THEN [npmrc EXCEPT ![target] = "template"] ELSE npmrc

\* lines 217-221
UnpackTemplate ==
  /\ pc = "unpackTemplate"
  /\ \/ /\ trace' = trace \o << "unpackTemplate", "unpackTemplate failed" >>
        /\ Reject("unpackTemplate")
        /\ UNCHANGED << husky, npmrc >>
     \/ /\ trace' = Append(trace, "unpackTemplate")
        /\ \E tplHusky \in BOOLEAN, tplNpmrc \in BOOLEAN : WriteTemplate(tplHusky, tplNpmrc)
        /\ pc' = "detectMonorepo"
        /\ UNCHANGED thrown
  /\ UNCHANGED << args, defaultData, target, manifest, markers, gitDirs, customRegistry,
                  npmClient, registry, monorepoRoot, inMonorepo, projectRoot,
                  shouldInitGit, withHusky, pnpmExtraNpmrc, pnpmMajorVersion, data, log,
                  gitSpawns, hist >>

\* the workspace probe deferred until the template has been written
DetectMonorepo_AfterRender ==
  /\ \/ /\ pc = "detectMonorepo"
        /\ pc' = "pnpm"
        /\ shouldInitGit' = args.git
        /\ withHusky' = args.git
        /\ UNCHANGED << monorepoRoot, inMonorepo, projectRoot, trace >>
     \/ /\ pc = "removeHusky"
        /\ \A i \in DOMAIN trace : trace[i] # "detectMonorepoRoot"
        /\ LET root == DetectMonorepoRoot(manifest, markers, target)
           IN  /\ monorepoRoot' = root
               /\ inMonorepo' = (root # NoDir)
               /\ projectRoot' = IF root # NoDir THEN root ELSE target
               /\ withHusky' = (args.git /\ ~(root # NoDir))
        /\ trace' = Append(trace, "detectMonorepoRoot")
        /\ UNCHANGED << pc, shouldInitGit >>
  /\ UNCHANGED << args, defaultData, target, manifest, markers, husky, npmrc, gitDirs,
                  customRegistry, npmClient, registry, pnpmExtraNpmrc, pnpmMajorVersion,
                  data, log, thrown, gitSpawns, hist >>

\* lines 233-241
DetectMonorepo ==
  /\ pc = "detectMonorepo"
  /\ LET root == DetectMonorepoRoot(manifest, markers, target)
     IN  /\ monorepoRoot' = root
         /\ inMonorepo' = (root # NoDir)
         /\ projectRoot' = IF root # NoDir THEN root ELSE target
         /\ shouldInitGit' = args.git
         /\ withHusky' = (args.git /\ ~(root # NoDir))
  /\ trace' = Append(trace, "detectMonorepoRoot")
  /\ pc' = "pnpm"
  /\ UNCHANGED << args, defaultData, target, manifest, markers, husky, npmrc, gitDirs,
                  customRegistry, npmClient, registry, pnpmExtraNpmrc, pnpmMajorVersion,
                  data, log, thrown, gitSpawns, hist >>

\* the pnpm probe taken whatever the package manager
isPnpm_Always == TRUE

\* line 245
isPnpm == npmClient = "pnpm"

\* lines 243-254, getPnpmMajorVersion of lines 384-391 included
PnpmProbe ==
  /\ pc = "pnpm"
  /\ IF isPnpm
       THEN \E o \in PnpmProbeOutcomes :
              LET r == getPnpmMajorVersion(o)
              IN  /\ trace' = trace \o << "getPnpmMajorVersion" >>
                                 \o (IF o.ok THEN << >> ELSE << "pnpm --version failed" >>)
                  /\ IF r.threw
                       THEN /\ Reject("Please install pnpm first")
                            /\ UNCHANGED << pnpmMajorVersion, pnpmExtraNpmrc >>
                       ELSE /\ pnpmMajorVersion' = r.major
                            /\ pnpmExtraNpmrc' = PnpmExtraNpmrcFor(r.major)
                            /\ pc' = "render"
                            /\ UNCHANGED thrown
       ELSE /\ pc' = "render"
            /\ UNCHANGED << trace, thrown, pnpmMajorVersion, pnpmExtraNpmrc >>
  /\ UNCHANGED << args, defaultData, target, manifest, markers, husky, npmrc, gitDirs,
                  customRegistry, npmClient, registry, monorepoRoot, inMonorepo,
                  projectRoot, shouldInitGit, withHusky, data, log, gitSpawns, hist >>

\* lines 261-272: the data of the generator
GeneratorData ==
  IF args.default
    THEN defaultData
    ELSE [npmClient |-> npmClient, registry |-> registry, withHusky |-> withHusky,
          extraNpmrc |-> IF isPnpm THEN pnpmExtraNpmrc ELSE ""]

\* the internal template rendered on every path
RendersInternal_Always == TRUE

\* line 276: the internal template is rendered unless an external one is given
RendersInternal == ~args.template

\* lines 256-278
Render ==
  /\ pc = "render"
  /\ IF RendersInternal
       THEN /\ data' = << GeneratorData >>
            /\ \/ /\ trace' = trace \o << "render", "render failed" >>
                  /\ Reject("render")
                  /\ UNCHANGED << husky, npmrc >>
               \/ /\ trace' = Append(trace, "render")
                  /\ \E tplHusky \in BOOLEAN, tplNpmrc \in BOOLEAN :
                       WriteTemplate(tplHusky, tplNpmrc)
                  /\ pc' = "removeHusky"
                  /\ UNCHANGED thrown
       ELSE /\ pc' = "removeHusky"
            /\ UNCHANGED << data, trace, thrown, husky, npmrc >>
  /\ UNCHANGED << args, defaultData, target, manifest, markers, gitDirs, customRegistry,
                  npmClient, registry, monorepoRoot, inMonorepo, projectRoot,
                  shouldInitGit, withHusky, pnpmExtraNpmrc, pnpmMajorVersion, log,
                  gitSpawns, hist >>

\* lines 286-288
StepRemoveHusky ==
  /\ pc = "removeHusky"
  /\ IF ~withHusky
       THEN \E fault \in BOOLEAN :
                 LET r == removeHusky(husky, fault)
                 IN  /\ husky' = r.husky
                     /\ trace' = trace \o << "removeHusky" >>
                                    \o (IF r.threw THEN << "removeHusky failed" >> ELSE << >>)
                     /\ IF r.threw
                          THEN Reject("removeHusky")
                          ELSE pc' = "moveNpmrc" /\ UNCHANGED thrown
       ELSE /\ pc' = "moveNpmrc"
            /\ UNCHANGED << trace, husky, thrown >>
  /\ UNCHANGED << args, defaultData, target, manifest, markers, npmrc, gitDirs,
                  customRegistry, npmClient, registry, monorepoRoot, inMonorepo,
                  projectRoot, shouldInitGit, withHusky, pnpmExtraNpmrc,
                  pnpmMajorVersion, data, log, gitSpawns, hist >>

\* the relocation placed below the git step instead of above it
StepMoveNpmrc_AfterGit ==
  /\ \/ /\ pc = "moveNpmrc"
        /\ pc' = "initGit"
        /\ UNCHANGED << trace, npmrc, thrown >>
     \/ /\ pc = "install"
        /\ inMonorepo
        /\ \A i \in DOMAIN trace : trace[i] # "moveNpmrc"
        /\ \E copyFault \in BOOLEAN, removeFault \in BOOLEAN :
             LET r == moveNpmrc(npmrc, target, projectRoot, copyFault, removeFault)
             IN  /\ npmrc' = r.npmrc
                 /\ trace' = trace \o << "moveNpmrc" >>
                                \o (IF r.threw THEN << "moveNpmrc failed" >> ELSE << >>)
                 /\ IF r.threw
                      THEN Reject("moveNpmrc")
                      ELSE pc' = "install" /\ UNCHANGED thrown
  /\ UNCHANGED << args, defaultData, target, manifest, markers, husky, gitDirs,
                  customRegistry, npmClient, registry, monorepoRoot, inMonorepo,
                  projectRoot, shouldInitGit, withHusky, pnpmExtraNpmrc,
                  pnpmMajorVersion, data, log, gitSpawns, hist >>

\* lines 290-293
StepMoveNpmrc ==
  /\ pc = "moveNpmrc"
  /\ IF inMonorepo
       THEN \E copyFault \in BOOLEAN, removeFault \in BOOLEAN :
                 LET r == moveNpmrc(npmrc, target, projectRoot, copyFault, removeFault)
                 IN  /\ npmrc' = r.npmrc
                     /\ trace' = trace \o << "moveNpmrc" >>
                                    \o (IF r.threw THEN << "moveNpmrc failed" >> ELSE << >>)
                     /\ IF r.threw
                          THEN Reject("moveNpmrc")
                          ELSE pc' = "initGit" /\ UNCHANGED thrown
       ELSE /\ pc' = "initGit"
            /\ UNCHANGED << trace, npmrc, thrown >>
  /\ UNCHANGED << args, defaultData, target, manifest, markers, husky, gitDirs,
                  customRegistry, npmClient, registry, monorepoRoot, inMonorepo,
                  projectRoot, shouldInitGit, withHusky, pnpmExtraNpmrc,
                  pnpmMajorVersion, data, log, gitSpawns, hist >>

\* lines 295-300
StepInitGit ==
  /\ pc = "initGit"
  /\ IF shouldInitGit
       THEN \E fails \in BOOLEAN :
                 LET r == initGit(gitDirs, projectRoot, fails)
                 IN  /\ gitDirs' = r.gitDirs
                     /\ trace' = trace \o << "initGit" >>
                                    \o (IF r.spawned THEN << "git init" >> ELSE << >>)
                                    \o (IF r.failed THEN << "git init failed" >> ELSE << >>)
                     /\ gitSpawns' = gitSpawns + (IF r.spawned THEN 1 ELSE 0)
                     /\ log' = IF r.failed /\ ~r.threw THEN Append(log, LogGitFailed) ELSE log
                     /\ IF r.threw
                          THEN Reject("git init")
                          ELSE pc' = "install" /\ UNCHANGED thrown
       ELSE /\ log' = Append(log, LogSkipGit)
            /\ pc' = "install"
            /\ UNCHANGED << trace, gitDirs, gitSpawns, thrown >>
  /\ UNCHANGED << args, defaultData, target, manifest, markers, husky, npmrc,
                  customRegistry, npmClient, registry, monorepoRoot, inMonorepo,
                  projectRoot, shouldInitGit, withHusky, pnpmExtraNpmrc,
                  pnpmMajorVersion, data, hist >>

\* installation enabled by the skip-install flag alone
InstallEnabled_FlagOnly == args.install

\* line 304
InstallEnabled == ~args.default /\ args.install

\* isPnpm8 compared with the strict-peer major version
isPnpm8_Seven == pnpmMajorVersion = PnpmStrictPeerMajor

\* line 303
isPnpm8 == pnpmMajorVersion = PnpmMinimalInstallMajor

\* lines 302-326; `fails` is the spawned command failing, which rejects
\* installWithPnpm8 and throws out of installWithNpmClient
StepInstall ==
  /\ pc = "install"
  /\ IF InstallEnabled
       THEN \E fails \in BOOLEAN :
              /\ trace' = trace \o << IF isPnpm8 THEN "installWithPnpm8"
                                                 ELSE "installWithNpmClient" >>
                                 \o (IF fails THEN << "install failed" >> ELSE << >>)
              /\ IF fails THEN Reject("install") ELSE pc' = "done" /\ UNCHANGED thrown
            /\ UNCHANGED log
       ELSE /\ log' = IF isPnpm8
                        THEN log \o << LogSkipInstall, LogPnpm8Minimal, LogPnpm8Recommend >>
                        ELSE Append(log, LogSkipInstall)
            /\ pc' = "done"
            /\ UNCHANGED << trace, thrown >>
  /\ UNCHANGED << args, defaultData, target, manifest, markers, husky, npmrc, gitDirs,
                  customRegistry, npmClient, registry, monorepoRoot, inMonorepo,
                  projectRoot, shouldInitGit, withHusky, pnpmExtraNpmrc,
                  pnpmMajorVersion, data, gitSpawns, hist >>

Next ==
  \/ DetectUserRegistry
  \/ SelectAppTemplate
  \/ SelectNpmClient
  \/ SelectRegistry
  \/ UnpackTemplate
  \/ DetectMonorepo
  \/ PnpmProbe
  \/ Render
  \/ StepRemoveHusky
  \/ StepMoveNpmrc
  \/ StepInitGit
  \/ StepInstall

Spec == Init /\ [][Next]_vars

\* ------------------------------------ the workspace-root probe on its own
\* every directory chain up to MaxDepth, before detectMonorepoRoot is called
InitProbe ==
  /\ pc = "probe"
  /\ args = [default |-> FALSE, template |-> FALSE, git |-> TRUE, install |-> TRUE]
  /\ defaultData = DEFAULT_DATA
  /\ target \in Levels
  /\ manifest \in SUBSET Ancestors(target)
  /\ markers \in [Levels -> SUBSET MarkerFiles]
  /\ TreeOK(target, manifest, markers)
  /\ husky = FALSE
  /\ npmrc = [l \in Levels |-> Absent]
  /\ gitDirs = {}
  /\ InitRun

\* lines 329-347, called as on line 234
CallDetectMonorepoRoot ==
  /\ pc = "probe"
  /\ LET root == DetectMonorepoRoot(manifest, markers, target)
     IN  /\ monorepoRoot' = root
         /\ inMonorepo' = (root # NoDir)
         /\ projectRoot' = IF root # NoDir THEN root ELSE target
  /\ trace' = Append(trace, "detectMonorepoRoot")
  /\ pc' = "probed"
  /\ UNCHANGED << args, defaultData, target, manifest, markers, husky, npmrc, gitDirs,
                  customRegistry, npmClient, registry, shouldInitGit, withHusky,
                  pnpmExtraNpmrc, pnpmMajorVersion, data, log, thrown, gitSpawns, hist >>

NextProbe == CallDetectMonorepoRoot

SpecProbe == InitProbe /\ [][NextProbe]_vars

\* ------------------------- the reconciliation functions called repeatedly
\* the IContext of lines 280-284 for a directory chain
ContextOK(t, mf, mk, inM, root) ==
  LET found == DetectMonorepoRoot(mf, mk, t)
  IN  /\ inM = (found # NoDir)
      /\ root = IF found # NoDir THEN found ELSE t

\* a rendered project tree with its context; the functions are then called on it
InitOps ==
  /\ pc = "harness"
  /\ args = [default |-> FALSE, template |-> FALSE, git |-> TRUE, install |-> TRUE]
  /\ defaultData = DEFAULT_DATA
  /\ target \in 0 .. MaxRunDepth
  /\ manifest \in SUBSET Ancestors(target)
  /\ markers \in [Levels -> SUBSET MarkerFiles]
  /\ TreeOK(target, manifest, markers)
  /\ customRegistry = << >>
  /\ npmClient = "pnpm"
  /\ registry = "npm"
  /\ monorepoRoot = DetectMonorepoRoot(manifest, markers, target)
  /\ inMonorepo \in BOOLEAN
  /\ projectRoot \in Levels
  /\ ContextOK(target, manifest, markers, inMonorepo, projectRoot)
  /\ shouldInitGit = TRUE
  /\ withHusky = ~inMonorepo
  /\ husky \in BOOLEAN
  /\ npmrc \in [Levels -> {Absent} \cup NpmrcContents]
  /\ \A l \in Levels :
       /\ l \notin {target, projectRoot} => npmrc[l] = Absent
       /\ l # target => npmrc[l] # "template"
  /\ gitDirs \in SUBSET {projectRoot}
  /\ pnpmExtraNpmrc = ""
  /\ pnpmMajorVersion = Undefined
  /\ data = << >>
  /\ log = << >>
  /\ trace = << >>
  /\ thrown = NoError
  /\ gitSpawns = 0
  /\ hist = << >>

\* the filesystem facts the three functions read and write
Snapshot(h, f, g) == [husky |-> h, npmrc |-> f, gitDirs |-> g]

\* removeHusky(context)
CallRemoveHusky ==
  /\ pc = "harness"
  /\ Len(hist) < MaxCalls
  /\ \E fault \in BOOLEAN :
       LET r == removeHusky(husky, fault)
       IN  /\ husky' = r.husky
           /\ hist' = Append(hist,
                 [op |-> "removeHusky", threw |-> r.threw, spawned |-> FALSE,
                  failed |-> FALSE, faults |-> IF fault THEN {"remove"} ELSE {},
                  pre |-> Snapshot(husky, npmrc, gitDirs),
                  post |-> Snapshot(r.husky, npmrc, gitDirs)])
  /\ UNCHANGED << pc, args, defaultData, target, manifest, markers, npmrc, gitDirs,
                  customRegistry, npmClient, registry, monorepoRoot, inMonorepo,
                  projectRoot, shouldInitGit, withHusky, pnpmExtraNpmrc,
                  pnpmMajorVersion, data, log, trace, thrown, gitSpawns >>

\* moveNpmrc(context)
CallMoveNpmrc ==
  /\ pc = "harness"
  /\ Len(hist) < MaxCalls
  /\ \E copyFault \in BOOLEAN, removeFault \in BOOLEAN :
       LET r == moveNpmrc(npmrc, target, projectRoot, copyFault, removeFault)
       IN  /\ npmrc' = r.npmrc
           /\ hist' = Append(hist,
                 [op |-> "moveNpmrc", threw |-> r.threw, spawned |-> FALSE,
                  failed |-> FALSE,
                  faults |-> (IF copyFault THEN {"copy"} ELSE {})
                               \cup (IF removeFault THEN {"remove"} ELSE {}),
                  pre |-> Snapshot(husky, npmrc, gitDirs),
                  post |-> Snapshot(husky, r.npmrc, gitDirs)])
  /\ UNCHANGED << pc, args, defaultData, target, manifest, markers, husky, gitDirs,
                  customRegistry, npmClient, registry, monorepoRoot, inMonorepo,
                  projectRoot, shouldInitGit, withHusky, pnpmExtraNpmrc,
                  pnpmMajorVersion, data, log, trace, thrown, gitSpawns >>

\* initGit(context)
CallInitGit ==
  /\ pc = "harness"
  /\ Len(hist) < MaxCalls
  /\ \E fails \in BOOLEAN :
       LET r == initGit(gitDirs, projectRoot, fails)
       IN  /\ gitDirs' = r.gitDirs
           /\ gitSpawns' = gitSpawns + (IF r.spawned THEN 1 ELSE 0)
           /\ log' = IF r.failed /\ ~r.threw THEN Append(log, LogGitFailed) ELSE log
           /\ hist' = Append(hist,
                 [op |-> "initGit", threw |-> r.threw, spawned |-> r.spawned,
                  failed |-> r.failed, faults |-> IF fails THEN {"git init"} ELSE {},
                  pre |-> Snapshot(husky, npmrc, gitDirs),
                  post |-> Snapshot(husky, npmrc, r.gitDirs)])
  /\ UNCHANGED << pc, args, defaultData, target, manifest, markers, husky, npmrc,
                  customRegistry, npmClient, registry, monorepoRoot, inMonorepo,
                  projectRoot, shouldInitGit, withHusky, pnpmExtraNpmrc,
                  pnpmMajorVersion, data, trace, thrown >>

NextOps ==
  \/ CallRemoveHusky
  \/ CallMoveNpmrc
  \/ CallInitGit

SpecOps == InitOps /\ [][NextOps]_vars

\* ---------------------------------------------------------- properties
InTrace(e) == \E i \in DOMAIN trace : trace[i] = e
InLog(l) == \E i \in DOMAIN log : log[i] = l

ReconciliationCalls ==
  {"removeHusky", "moveNpmrc", "initGit", "git init", "installWithPnpm8",
   "installWithNpmClient"}

\* the install step has been taken
AfterInstall == pc = "done" \/ thrown = "install"

\* C1: a filesystem failure inside removeHusky or moveNpmrc never aborts the
\* run: whenever one of them has failed, no error has been propagated (the run
\* is not rejected) and the pipeline goes on to git init and install.
C1_FsFailureNeverAborts ==
  (InTrace("removeHusky failed") \/ InTrace("moveNpmrc failed"))
    => (thrown = NoError /\ pc # "rejected")

\* C2: a failing `git init` is caught and logged, nothing is propagated, and
\* the step ends at the install step as it does after a successful git init:
\* every step taken from the git step with git enabled leads to the install
\* step with no error thrown, leaves the project files as they were, and a
\* failed command adds exactly the line 'Initial the git repo failed' and no
\* .git directory.
C2_GitInitFailureNonFatal ==
  [][ (pc = "initGit" /\ shouldInitGit)
        => /\ pc' = "install"
           /\ thrown' = NoError
           /\ husky' = husky /\ npmrc' = npmrc
           /\ IF trace'[Len(trace')] = "git init failed"
                THEN log' = Append(log, LogGitFailed) /\ gitDirs' = gitDirs
                ELSE log' = log /\ projectRoot \in gitDirs' ]_vars

\* C2 witness: a run that completed although its `git init` failed, with the
\* install command run after the failure.
C2_Witness ==
  /\ pc = "done"
  /\ thrown = NoError
  /\ InTrace("git init failed")
  /\ InLog(LogGitFailed)
  /\ trace[Len(trace)] \in {"installWithPnpm8", "installWithNpmClient"}

\* C3: a failure of the pnpm version probe, of the render collaborator or of
\* the unpack collaborator rejects the run with that error, and in no state
\* that follows such a failure has any of removeHusky, moveNpmrc, initGit or
\* an install command been called.
C3_FatalBeforeReconciliation ==
  /\ InTrace("pnpm --version failed")
       => (pc = "rejected" /\ thrown = "Please install pnpm first")
  /\ InTrace("render failed") => (pc = "rejected" /\ thrown = "render")
  /\ InTrace("unpackTemplate failed") => (pc = "rejected" /\ thrown = "unpackTemplate")
  /\ (InTrace("pnpm --version failed") \/ InTrace("render failed")
        \/ InTrace("unpackTemplate failed"))
       => \A c \in ReconciliationCalls : ~InTrace(c)
  /\ pc = "rejected" => ~ENABLED Next

\* C3 witness: a run rejected by the failing version probe after a template
\* was unpacked.
C3_Witness ==
  /\ pc = "rejected"
  /\ thrown = "Please install pnpm first"
  /\ InTrace("pnpm --version failed")
  /\ InTrace("unpackTemplate")

\* two consecutive calls of `op`, the first being call number i
Twice(op, i) ==
  /\ i \in DOMAIN hist /\ i + 1 \in DOMAIN hist
  /\ hist[i].op = op /\ hist[i + 1].op = op

\* C4 (as stated, read for a workspace root above the project directory and
\* a filesystem that raises no fault of its own): two consecutive moveNpmrc
\* calls end with a config file at the workspace root and none at the project
\* directory, and the second call leaves the state of the first.
C4_AsStated ==
  \A i \in DOMAIN hist :
    (Twice("moveNpmrc", i) /\ inMonorepo /\ projectRoot # target
       /\ hist[i].faults = {} /\ hist[i + 1].faults = {})
      => /\ hist[i + 1].post.npmrc[projectRoot] # Absent
         /\ hist[i + 1].post.npmrc[target] = Absent
         /\ hist[i + 1].post = hist[i].post

\* C4 (amended): in a workspace whose root is above the project directory,
\* (a) a moveNpmrc call that completes leaves a config file at the root and
\* none at the project directory, keeps an existing root file and otherwise
\* creates it from the local one; (b) a second call after it that completes
\* changes nothing; (c) without filesystem faults the first call completes
\* exactly when a config file existed at the project directory or at the
\* root, and the second call then completes too.
C4_MoveNpmrcIdempotent ==
  \A i \in DOMAIN hist :
    (Twice("moveNpmrc", i) /\ inMonorepo /\ projectRoot # target)
      => LET a == hist[i]
             b == hist[i + 1]
         IN  /\ ~a.threw
                  => /\ a.post.npmrc[projectRoot] # Absent
                     /\ a.post.npmrc[target] = Absent
                     /\ a.post.npmrc[projectRoot] =
                          IF a.pre.npmrc[projectRoot] # Absent
                            THEN a.pre.npmrc[projectRoot]
                            ELSE a.pre.npmrc[target]
             /\ (~a.threw /\ ~b.threw) => b.post = a.post
             /\ a.faults = {}
                  => (a.threw <=> (a.pre.npmrc[target] = Absent
                                     /\ a.pre.npmrc[projectRoot] = Absent))
             /\ (~a.threw /\ b.faults = {}) => ~b.threw

\* C4 witness: two completed moveNpmrc calls in a workspace that had no root
\* config file before the first one.
C4_Witness ==
  \E i \in DOMAIN hist :
    /\ Twice("moveNpmrc", i) /\ inMonorepo /\ projectRoot # target
    /\ ~hist[i].threw /\ ~hist[i + 1].threw
    /\ hist[i].pre.npmrc[projectRoot] = Absent
    /\ hist[i + 1].post.npmrc[projectRoot] = "template"

\* number of `git init` spawned by calls i and i+1
SpawnsOfTwo(i) ==
  (IF hist[i].spawned THEN 1 ELSE 0) + (IF hist[i + 1].spawned THEN 1 ELSE 0)

\* C5 (as stated, read for a project root that has no .git directory before
\* the first call): two consecutive initGit calls on the same root spawn
\* `git init` exactly once.
C5_AsStated ==
  \A i \in DOMAIN hist :
    (Twice("initGit", i) /\ projectRoot \notin hist[i].pre.gitDirs)
      => SpawnsOfTwo(i) = 1

\* C5 (amended): of two consecutive initGit calls on the same root, the
\* second spawns `git init` only if the first one spawned it and failed; so a
\* root without .git gets exactly one attempt when that attempt succeeds and
\* two when it fails, a root that already has .git gets none, and no call
\* spawns once .git exists.
C5_GitInitIdempotent ==
  \A i \in DOMAIN hist :
    /\ hist[i].op = "initGit"
         => (hist[i].spawned <=> projectRoot \notin hist[i].pre.gitDirs)
    /\ Twice("initGit", i)
         => /\ hist[i + 1].spawned <=> (hist[i].spawned /\ hist[i].failed)
            /\ (hist[i].spawned /\ ~hist[i].failed) => SpawnsOfTwo(i) = 1
            /\ ~hist[i].spawned => SpawnsOfTwo(i) = 0
            /\ ~hist[i].threw /\ ~hist[i + 1].threw

\* C5 witness: two initGit calls on a root without .git, the first spawning
\* `git init` successfully and the second short-circuiting.
C5_Witness ==
  \E i \in DOMAIN hist :
    /\ Twice("initGit", i)
    /\ projectRoot \notin hist[i].pre.gitDirs
    /\ hist[i].spawned /\ ~hist[i].failed
    /\ ~hist[i + 1].spawned
    /\ gitSpawns = 1

\* C6 (as stated, for completed runs of calls that leave defaultData at
\* DEFAULT_DATA): the data handed to the render collaborator carries the
\* strict-peer-dependencies line if and only if the package manager is pnpm
\* and the detected major version is 7, and an empty auxiliary string
\* otherwise.
C6_ExtraNpmrcIffPnpm7 ==
  (pc = "done" /\ data # << >> /\ defaultData = DEFAULT_DATA)
    => LET d == data[1]
           affected == /\ npmClient = "pnpm"
                       /\ d.npmClient = "pnpm"
                       /\ pnpmMajorVersion = PnpmStrictPeerMajor
       IN  /\ d.extraNpmrc = StrictPeerLine <=> affected
           /\ ~affected => d.extraNpmrc = ""

\* C7 (as stated, for completed runs of calls that leave defaultData at
\* DEFAULT_DATA): the withHusky flag handed to the render collaborator equals
\* "git enabled and not in a workspace", removeHusky was called exactly when
\* that flag is false, and the .husky directory is there only if the flag
\* says it is retained.
C7_HuskyRetainedIffGitAndNoWorkspace ==
  (pc = "done" /\ data # << >> /\ defaultData = DEFAULT_DATA)
    => /\ data[1].withHusky = (args.git /\ ~inMonorepo)
       /\ InTrace("removeHusky") <=> ~data[1].withHusky
       /\ husky => data[1].withHusky

\* C8 (as stated, for calls that leave defaultData at DEFAULT_DATA): once the
\* install step is taken with the skip-install flag not set, the upgrade
\* command has run and no plain install if the detected major version is 8,
\* and otherwise the plain install and no upgrade.
C8_AsStated ==
  (AfterInstall /\ args.install /\ defaultData = DEFAULT_DATA)
    => IF pnpmMajorVersion = PnpmMinimalInstallMajor
         THEN InTrace("installWithPnpm8") /\ ~InTrace("installWithNpmClient")
         ELSE InTrace("installWithNpmClient") /\ ~InTrace("installWithPnpm8")

\* C8 (amended): installation is enabled when neither use-defaults nor
\* skip-install is set. Once the install step is taken: if enabled, the
\* upgrade command has run and no plain install when the detected major
\* version is 8, and otherwise the plain install and no upgrade, and no skip
\* notice is logged; if not enabled, neither command has run and the skip
\* notice is logged. So exactly one of upgrade, plain install and skip notice
\* happens, and before the install step none of them has.
C8_InstallSelection ==
  LET enabled == ~args.default /\ args.install
      upgrade == InTrace("installWithPnpm8")
      plain == InTrace("installWithNpmClient")
      skip == InLog(LogSkipInstall)
  IN  /\ AfterInstall
           => /\ enabled /\ pnpmMajorVersion = PnpmMinimalInstallMajor
                   => (upgrade /\ ~plain /\ ~skip)
              /\ enabled /\ pnpmMajorVersion # PnpmMinimalInstallMajor
                   => (plain /\ ~upgrade /\ ~skip)
              /\ ~enabled => (skip /\ ~upgrade /\ ~plain)
              /\ Cardinality({x \in {"upgrade", "plain", "skip"} :
                     \/ x = "upgrade" /\ upgrade
                     \/ x = "plain" /\ plain
                     \/ x = "skip" /\ skip}) = 1
      /\ ~AfterInstall => (~upgrade /\ ~plain /\ ~skip)

\* C8 witness: a completed run with use-defaults set and skip-install not
\* set, under pnpm 8, that logged the skip notice and ran no command.
C8_Witness ==
  /\ pc = "done"
  /\ args.default /\ args.install
  /\ pnpmMajorVersion = PnpmMinimalInstallMajor
  /\ InLog(LogSkipInstall)
  /\ ~InTrace("installWithPnpm8") /\ ~InTrace("installWithNpmClient")

\* C9: once the install step is taken, if installation was skipped (no
\* install command was run) the skip notice is logged, and the two advisory
\* lines are logged as well if and only if the detected major version is 8;
\* if installation was not skipped neither the skip notice nor the advisory
\* is logged. Before the install step none of them is logged.
C9_MinimalInstallAdvisory ==
  LET skipped == ~InTrace("installWithPnpm8") /\ ~InTrace("installWithNpmClient")
      advisory == InLog(LogPnpm8Minimal) /\ InLog(LogPnpm8Recommend)
      anyAdvisory == InLog(LogPnpm8Minimal) \/ InLog(LogPnpm8Recommend)
  IN  /\ (AfterInstall /\ skipped)
           => /\ InLog(LogSkipInstall)
              /\ advisory <=> pnpmMajorVersion = PnpmMinimalInstallMajor
              /\ anyAdvisory => advisory
      /\ (AfterInstall /\ ~skipped) => (~InLog(LogSkipInstall) /\ ~anyAdvisory)
      /\ ~AfterInstall => (~InLog(LogSkipInstall) /\ ~anyAdvisory)

\* C9 witness: a completed run that skipped installation under pnpm 8 and
\* logged the skip notice followed by the advisory.
C9_Witness ==
  /\ pc = "done"
  /\ ~args.install
  /\ pnpmMajorVersion = PnpmMinimalInstallMajor
  /\ Len(log) >= 3
  /\ SubSeq(log, Len(log) - 2, Len(log))
       = << LogSkipInstall, LogPnpm8Minimal, LogPnpm8Recommend >>

\* the directory the probe starts from holds the nearest manifest at d
NearestManifest(d) ==
  /\ d \in manifest
  /\ d <= Dirname(target)
  /\ \A e \in Levels : (d < e /\ e <= Dirname(target)) => e \notin manifest

HasMarker(d) ==
  "lerna.json" \in markers[d] \/ "pnpm-workspace.yaml" \in markers[d]

\* C10: detectMonorepoRoot(target) returns d if and only if d is the nearest
\* directory with a package manifest, searching upward from the parent of
\* target, and d holds lerna.json or pnpm-workspace.yaml; it returns null
\* when no such directory has a manifest or the nearest one has no marker,
\* whatever higher ancestors hold.
C10_WorkspaceRootProbe ==
  pc = "probed"
    => /\ \A d \in Levels :
            monorepoRoot = d <=> (NearestManifest(d) /\ HasMarker(d))
       /\ monorepoRoot = NoDir
            <=> ~\E d \in Levels : NearestManifest(d) /\ HasMarker(d)
       /\ monorepoRoot \in Levels \cup {NoDir}

\* C10 witness: the nearest manifest directory has no marker while a higher
\* ancestor has both a manifest and a marker, and the probe returns null.
C10_Witness ==
  /\ pc = "probed"
  /\ monorepoRoot = NoDir
  /\ \E d \in Levels, e \in Levels :
       /\ NearestManifest(d) /\ ~HasMarker(d)
       /\ e < d /\ e \in manifest /\ HasMarker(e)

\* C11: removeHusky called when the .husky directory is absent raises no
\* error and changes no file, whatever the filesystem would answer to a
\* remove; a call that completes leaves no .husky directory and touches
\* nothing else; and a second call after a completed one completes too and
\* leaves the state of the first.
C11_RemoveHuskyIdempotent ==
  \A i \in DOMAIN hist :
    /\ hist[i].op = "removeHusky"
         => /\ ~hist[i].pre.husky => (~hist[i].threw /\ hist[i].post = hist[i].pre)
            /\ ~hist[i].threw
                 => hist[i].post = [hist[i].pre EXCEPT !.husky = FALSE]
            /\ hist[i].threw => hist[i].post = hist[i].pre
    /\ (Twice("removeHusky", i) /\ ~hist[i].threw)
         => (~hist[i + 1].threw /\ hist[i + 1].post = hist[i].post)

\* C11 witness: a first call that removed an existing .husky directory, then
\* a second call on a filesystem that would reject a remove, which completes
\* and changes nothing.
C11_Witness ==
  \E i \in DOMAIN hist :
    /\ Twice("removeHusky", i)
    /\ hist[i].pre.husky /\ ~hist[i].threw
    /\ hist[i + 1].faults = {"remove"}
    /\ ~hist[i + 1].threw
    /\ hist[i + 1].post = hist[i].post

\* the calls that start a reconciliation step, and the place of each step
IsStepCall(e) ==
  e \in {"removeHusky", "moveNpmrc", "initGit", "installWithPnpm8", "installWithNpmClient"}

StepRank(e) ==
  CASE e = "removeHusky" -> 1
    [] e = "moveNpmrc" -> 2
    [] e = "initGit" -> 3
    [] OTHER -> 4

\* the place of a position of the run in the reconciliation sequence
PcRank(p) ==
  CASE p = "removeHusky" -> 1
    [] p = "moveNpmrc" -> 2
    [] p = "initGit" -> 3
    [] p = "install" -> 4
    [] p = "done" -> 5
    [] OTHER -> 0

\* C12: the reconciliation steps are called in the order removeHusky,
\* moveNpmrc, initGit, install command, each at most once; a step that has
\* been called has returned before the run stands at a later step, and a step
\* that rejects is the last thing the run does; a completed run has called
\* exactly the steps its parameters ask for.
C12_ReconciliationOrder ==
  LET steps == SelectSeq(trace, IsStepCall)
  IN  /\ \A i \in DOMAIN steps, j \in DOMAIN steps :
           i < j => StepRank(steps[i]) < StepRank(steps[j])
      /\ \A i \in DOMAIN steps :
           pc = "rejected" \/ StepRank(steps[i]) < PcRank(pc)
      /\ \A i \in DOMAIN trace :
           trace[i] \in {"removeHusky failed", "moveNpmrc failed", "install failed"}
             => (i = Len(trace) /\ pc = "rejected")
      /\ pc = "done"
           => /\ (\E i \in DOMAIN steps : steps[i] = "removeHusky") <=> ~withHusky
              /\ (\E i \in DOMAIN steps : steps[i] = "moveNpmrc") <=> inMonorepo
              /\ (\E i \in DOMAIN steps : steps[i] = "initGit") <=> shouldInitGit
              /\ (\E i \in DOMAIN steps : StepRank(steps[i]) = 4) <=> InstallEnabled

\* C12 witness: a completed run that called all four steps.
C12_Witness ==
  /\ pc = "done"
  /\ SelectSeq(trace, IsStepCall) \in
       { << "removeHusky", "moveNpmrc", "initGit", "installWithPnpm8" >>,
         << "removeHusky", "moveNpmrc", "initGit", "installWithNpmClient" >> }

\* C13: only the pnpm version probe and the render/unpack calls abort a run:
\* a run whose probe and whose render or unpack call succeeded is never
\* rejected, here for the runs that got past removeHusky and moveNpmrc and
\* started the upgrade command `pnpm up -L`.
C13_OnlyProbeAndGenerationAbort ==
  (pc = "rejected" /\ InTrace("installWithPnpm8"))
    => thrown \in {"Please install pnpm first", "render", "unpackTemplate"}

\* C14: whenever moveNpmrc completes for a project inside a workspace, a
\* config file that already existed at the workspace root keeps its content,
\* a root config file is created from the local one only if none existed, and
\* no config file remains at the project directory; outside a workspace the
\* step calls nothing and leaves every config file as it was.
C14_RelocationNeverClobbers ==
  [][ pc = "moveNpmrc"
        => IF inMonorepo
             THEN pc' # "rejected"
                    => /\ npmrc[projectRoot] # Absent
                            => npmrc'[projectRoot] = npmrc[projectRoot]
                       /\ npmrc[projectRoot] = Absent
                            => npmrc'[projectRoot] = npmrc[target]
                       /\ npmrc'[target] = Absent
                       /\ \A l \in Levels :
                            l \notin {target, projectRoot} => npmrc'[l] = npmrc[l]
             ELSE npmrc' = npmrc /\ trace' = trace /\ pc' = "initGit" ]_vars

\* the positions of a run up to and including the git step
BeforeGitStepEnds ==
  pc \in {"detectUserRegistry", "selectAppTemplate", "selectNpmClient",
          "selectRegistry", "unpackTemplate", "detectMonorepo", "pnpm", "render",
          "removeHusky", "moveNpmrc", "initGit"}

Count(e) == Len(SelectSeq(trace, LAMBDA x : x = e))

\* C16: no run calls both unpackTemplate and the internal render, and none
\* calls either twice; with an external template the internal render is never
\* called, without one unpackTemplate is never called; and once the run stands
\* at the first reconciliation step (or beyond, or has been rejected there)
\* exactly one of the two has been called.
C16_GenerationPathsExclusive ==
  /\ Count("render") + Count("unpackTemplate") <= 1
  /\ args.template => Count("render") = 0
  /\ ~args.template => Count("unpackTemplate") = 0
  /\ (pc \in {"removeHusky", "moveNpmrc", "initGit", "install", "done"}
        \/ \E i \in DOMAIN trace : IsStepCall(trace[i]))
       => /\ Count("render") + Count("unpackTemplate") = 1
          /\ Count("unpackTemplate") = 1 <=> args.template
  /\ \A i \in DOMAIN trace, j \in DOMAIN trace :
       (trace[i] \in {"render", "unpackTemplate"} /\ IsStepCall(trace[j])) => i < j

\* C16 witness: a completed run with an external template that called
\* unpackTemplate, never the internal render, and then a reconciliation step.
C16_Witness ==
  /\ pc = "done"
  /\ args.template
  /\ Count("unpackTemplate") = 1 /\ Count("render") = 0
  /\ \E i \in DOMAIN trace : IsStepCall(trace[i])

\* position of the first occurrence of event e in the trace, 0 when absent
IndexOf(e) ==
  IF InTrace(e) THEN CHOOSE i \in DOMAIN trace :
                       trace[i] = e /\ \A j \in DOMAIN trace : trace[j] = e => i <= j
  ELSE 0

\* C17 (as stated): the workspace probe runs only after the render or the
\* unpack call has completed.
C17_AsStated ==
  InTrace("detectMonorepoRoot")
    => \/ (InTrace("render") /\ IndexOf("render") < IndexOf("detectMonorepoRoot"))
       \/ (InTrace("unpackTemplate")
             /\ IndexOf("unpackTemplate") < IndexOf("detectMonorepoRoot"))

\* C17 (amended): the workspace probe is called once, before the pnpm probe
\* and before every reconciliation step; with an external template it is
\* called after unpackTemplate has completed, without one it is called before
\* the internal render (whose data holds withHusky, computed from the probe);
\* from the probe on, inMonorepo and projectRoot are the values the probe
\* gave for the target and no later step changes them.
C17_ContextBeforeRender ==
  /\ [](/\ Count("detectMonorepoRoot") <= 1
        /\ \A i \in DOMAIN trace :
             (IsStepCall(trace[i]) \/ trace[i] \in {"getPnpmMajorVersion", "render"})
               => (InTrace("detectMonorepoRoot") /\ IndexOf("detectMonorepoRoot") < i)
        /\ (InTrace("detectMonorepoRoot") /\ args.template)
             => (/\ InTrace("unpackTemplate")
                 /\ IndexOf("unpackTemplate") < IndexOf("detectMonorepoRoot")
                 /\ ~InTrace("unpackTemplate failed"))
        /\ InTrace("detectMonorepoRoot")
             => /\ monorepoRoot = DetectMonorepoRoot(manifest, markers, target)
                /\ inMonorepo = (monorepoRoot # NoDir)
                /\ projectRoot = IF inMonorepo THEN monorepoRoot ELSE target)
  /\ [][InTrace("detectMonorepoRoot")
          => UNCHANGED << inMonorepo, projectRoot, monorepoRoot, target >>]_vars

\* C17 witness: a completed run of an internal template in a workspace whose
\* probe was called before the render.
C17_Witness ==
  /\ pc = "done"
  /\ ~args.template
  /\ inMonorepo
  /\ InTrace("render")
  /\ IndexOf("detectMonorepoRoot") < IndexOf("render")

\* C18: once the context is built, projectRoot is target or a directory above
\* it: it is target when the project is not inside a workspace, it is the
\* detected workspace root, strictly above target, when it is, and inMonorepo
\* is true exactly in the second case.
C18_ProjectRootAncestor ==
  InTrace("detectMonorepoRoot")
    => /\ projectRoot <= target
       /\ ~inMonorepo => projectRoot = target
       /\ inMonorepo => (projectRoot = monorepoRoot /\ projectRoot < target)
       /\ inMonorepo <=> projectRoot < target

\* C19: in every run that renders an internal template, the package manager
\* named in the data handed to the render is the one that decided whether the
\* pnpm version probe ran: the data names pnpm exactly when the probe was
\* called, and it names the run's npmClient (read on completed runs).
C19_OnePackageManager ==
  (pc = "done" /\ data # << >>)
    => /\ data[1].npmClient = npmClient
       /\ data[1].npmClient = "pnpm" <=> InTrace("getPnpmMajorVersion")

\* C20: getPnpmMajorVersion is called only when the run's npmClient is pnpm:
\* in a run whose npmClient is another package manager `pnpm --version` is
\* never spawned, the run is never rejected with 'Please install pnpm first',
\* the major version stays undefined and no extra .npmrc line is derived,
\* `pnpm up -L` is never run and the pnpm 8 advisory is never logged; and a
\* run whose npmClient is pnpm has called the probe once it is past it.
C20_ProbeOnlyForPnpm ==
  /\ npmClient # "pnpm"
       => /\ ~InTrace("getPnpmMajorVersion")
          /\ ~InTrace("pnpm --version failed")
          /\ thrown # "Please install pnpm first"
          /\ pnpmMajorVersion = Undefined
          /\ pnpmExtraNpmrc = ""
          /\ ~InTrace("installWithPnpm8")
          /\ ~InLog(LogPnpm8Minimal) /\ ~InLog(LogPnpm8Recommend)
  /\ (npmClient = "pnpm"
        /\ pc \in {"render", "removeHusky", "moveNpmrc", "initGit", "install", "done"})
       => Count("getPnpmMajorVersion") = 1

\* C20 witness: a completed run with yarn selected at the prompt that
\* installed with the plain install command and never probed pnpm.
C20_Witness ==
  /\ pc = "done"
  /\ npmClient = "yarn"
  /\ InTrace("installWithNpmClient")
  /\ ~InTrace("getPnpmMajorVersion")
  /\ pnpmMajorVersion = Undefined

====
